---------------------------- MODULE Spec2Model ----------------------------
(***************************************************************************)
(* Model of app.py, the TRB survey explorer: the load-time normalisation   *)
(* of the four-column table, the organization tokenizer split_orgs, the    *)
(* reactive filter df_filtered and the five outputs that are recomputed    *)
(* from it whenever an input changes.                                      *)
(*                                                                         *)
(* Text.  A free-text cell is the sequence of its lexical atoms: a word (a *)
(* maximal run of non-blank, non-delimiter characters, carried as one      *)
(* string), one blank " ", or one delimiter character.  The regular        *)
(* expression of split_orgs only looks at blanks, delimiter characters and *)
(* the word "and" standing between two blanks, so it reads an atom         *)
(* sequence exactly as it reads the characters.  A numeric cell is the     *)
(* sequence of its characters.                                             *)
(***************************************************************************)
EXTENDS Integers, Sequences, FiniteSets, TLC

VARIABLES csv, BASE_DF, ORG_CHOICES, input, filtered,
          charts_header, pie_last5, pie_intent, bar_orgs, pie_tenure

vars == <<csv, BASE_DF, ORG_CHOICES, input, filtered,
          charts_header, pie_last5, pie_intent, bar_orgs, pie_tenure>>

(* ------------------------------ Config -------------------------------- *)

INTENT_LEVELS ==
  <<"Definitely going", "Probably going", "I don't know",
    "Probably not going", "Definitely not going">>

TENURE_LEVELS ==
  <<"0 to 5 years", "6 to 10 years", "11 to 15 years", "16 or more years">>

(* Largest number of rows of the table that is loaded. *)
MaxRows == 2

(* ------------------------------ Helpers ------------------------------- *)

Range(s) == {s[i] : i \in DOMAIN s}

RECURSIVE SumSeq(_)
SumSeq(s) == IF s = <<>> THEN 0 ELSE Head(s) + SumSeq(Tail(s))

MapSeq(s, F(_)) == [i \in DOMAIN s |-> F(s[i])]

RECURSIVE Concat(_)
Concat(ss) == IF ss = <<>> THEN <<>> ELSE Head(ss) \o Concat(Tail(ss))

IndexOf(s, x) == IF x \in Range(s) THEN CHOOSE i \in DOMAIN s : s[i] = x ELSE 0

(* ------------------------------- Text --------------------------------- *)

SP == " "

(* str.strip(): blanks removed from both ends. *)
RECURSIVE lstrip(_)
lstrip(s) == IF s # <<>> /\ Head(s) = SP THEN lstrip(Tail(s)) ELSE s

RECURSIVE rstrip(_)
rstrip(s) ==
  IF s # <<>> /\ s[Len(s)] = SP THEN rstrip(SubSeq(s, 1, Len(s) - 1)) ELSE s

strip(s) == rstrip(lstrip(s))

(* The atoms in the order of Python's string comparison (code points:      *)
(* blank, then upper case, then lower case).                               *)
ATOM_ORDER ==
  <<" ", "CONSULTANT", "Consultant", "Consulting", "DOT", "MPO", "Software",
    "and", "consultant", "software">>

RECURSIVE TextLess(_, _)
TextLess(a, b) ==
  IF b = <<>> THEN FALSE
  ELSE IF a = <<>> THEN TRUE
  ELSE IF Head(a) = Head(b) THEN TextLess(Tail(a), Tail(b))
  ELSE IndexOf(ATOM_ORDER, Head(a)) < IndexOf(ATOM_ORDER, Head(b))

(* sorted(set): the ascending list of the members of S. *)
RECURSIVE sorted(_)
sorted(S) ==
  IF S = {} THEN <<>>
  ELSE LET m == CHOOSE x \in S : \A y \in S \ {x} : TextLess(x, y)
       IN  <<m>> \o sorted(S \ {m})

(* ---------------------------- split_orgs ------------------------------ *)

DELIMITER_CHARS == {",", "/", ";", "+"}

AND_WORD == <<SP, "and", SP>>

(* The strings split_orgs drops from the split: {",", "/", ";", "+", " and "} *)
DELIMITER_PARTS == {<<c>> : c \in DELIMITER_CHARS} \cup {AND_WORD}

(* \s* at position p: the number of blanks that start there. *)
RECURSIVE SpaceRun(_, _)
SpaceRun(s, p) ==
  IF p <= Len(s) /\ s[p] = SP THEN 1 + SpaceRun(s, p + 1) ELSE 0

(* The group (,|/|;|\+| and ) at position p: the text it matches, or <<>>. *)
GroupAt(s, p) ==
  IF p <= Len(s) /\ s[p] \in DELIMITER_CHARS THEN <<s[p]>>
  ELSE IF p + 2 <= Len(s) /\ SubSeq(s, p, p + 2) = AND_WORD THEN AND_WORD
  ELSE <<>>

(* The leading \s* is greedy: it takes j blanks, the most first, and gives *)
(* one back at a time until the group matches behind it.                   *)
RECURSIVE LeadAt(_, _, _)
LeadAt(s, i, j) ==
  IF GroupAt(s, i + j) # <<>> THEN j
  ELSE IF j = 0 THEN -1
  ELSE LeadAt(s, i, j - 1)

(* The pattern \s*(,|/|;|\+| and )\s* matched at position i. *)
MatchAt(s, i) ==
  LET j == LeadAt(s, i, SpaceRun(s, i))
  IN  IF j < 0 THEN [found |-> FALSE, group |-> <<>>, end |-> i]
      ELSE LET g == GroupAt(s, i + j)
               e == i + j + Len(g)
           IN  [found |-> TRUE, group |-> g, end |-> e + SpaceRun(s, e)]

(* re.split with one capturing group: the text before each leftmost match, *)
(* the captured group, and at last the rest.                               *)
RECURSIVE re_split(_, _, _)
re_split(s, start, i) ==
  IF i > Len(s) THEN <<SubSeq(s, start, Len(s))>>
  ELSE LET m == MatchAt(s, i)
       IN  IF m.found
           THEN <<SubSeq(s, start, i - 1), m.group>> \o re_split(s, m.end, m.end)
           ELSE re_split(s, start, i + 1)

KeepPart(p) == p # <<>> /\ p \notin DELIMITER_PARTS

split_orgs(cell) ==
  IF cell = <<>> THEN <<>>
  ELSE MapSeq(SelectSeq(re_split(cell, 1, 1), KeepPart), strip)

(* ----------------------------- Data load ------------------------------ *)

(* A missing number (NaN) and a present one, num/den with den a power of   *)
(* ten: "2.5" is 25/10.                                                    *)
NaN == [isna |-> TRUE, num |-> 0, den |-> 1]

Number(n, d) == [isna |-> FALSE, num |-> n, den |-> d]

DIGITS == <<"0", "1", "2", "3", "4", "5", "6", "7", "8", "9">>

IsDigits(s) == s # <<>> /\ \A i \in DOMAIN s : s[i] \in Range(DIGITS)

RECURSIVE DigitsValue(_)
DigitsValue(s) ==
  IF s = <<>> THEN 0
  ELSE 10 * DigitsValue(SubSeq(s, 1, Len(s) - 1)) + (IndexOf(DIGITS, s[Len(s)]) - 1)

RECURSIVE Pow10(_)
Pow10(n) == IF n = 0 THEN 1 ELSE 10 * Pow10(n - 1)

(* pd.to_numeric(errors="coerce") of one cell: an optional sign, digits    *)
(* and an optional decimal part give the number; anything else, the empty  *)
(* cell included, gives NaN.  Nothing restricts the number to 0..5 or to   *)
(* whole numbers.                                                          *)
to_numeric(cell) ==
  LET neg  == cell # <<>> /\ Head(cell) = "-"
      body == IF neg THEN Tail(cell) ELSE cell
      dot  == IndexOf(body, ".")
      ip   == IF dot = 0 THEN body ELSE SubSeq(body, 1, dot - 1)
      fp   == IF dot = 0 THEN <<>> ELSE SubSeq(body, dot + 1, Len(body))
      mag  == DigitsValue(ip) * Pow10(Len(fp)) + DigitsValue(fp)
  IN  IF IsDigits(ip) /\ (dot = 0 \/ IsDigits(fp))
      THEN Number(IF neg THEN 0 - mag ELSE mag, Pow10(Len(fp)))
      ELSE NaN

(* pd.Categorical(values, categories): the code of a value is its place in *)
(* the categories, and 0 (pandas: -1, shown as NaN) when it is not one.    *)
Categorical(value, categories) == IndexOf(categories, value)

isna(code) == code = 0

(* Categorical.astype(str): the category, and "nan" for a missing value. *)
astype_str(code, categories) == IF code = 0 THEN "nan" ELSE categories[code]

(* Series.replace with a dict: a cell that equals a key, as a whole, is    *)
(* replaced.                                                               *)
replace_variants(cell) ==
  IF cell \in {<<"Consultant">>, <<"consultant">>, <<"CONSULTANT">>}
  THEN <<"Consulting">>
  ELSE IF cell = <<"software">> THEN <<"Software">>
  ELSE cell

normalize_organization(cell) == replace_variants(strip(cell))

normalize_row(raw) ==
  [Last5Years      |-> to_numeric(raw.Last5Years),
   AttendTRBAM2026 |-> Categorical(raw.AttendTRBAM2026, INTENT_LEVELS),
   Organization    |-> normalize_organization(raw.Organization),
   HowLong         |-> Categorical(raw.HowLong, TENURE_LEVELS)]

load(table) == MapSeq(table, normalize_row)

org_choices(df) ==
  sorted(UNION {Range(split_orgs(df[i].Organization)) : i \in DOMAIN df})

(* ----------------------------- df_filtered ---------------------------- *)

(* df = BASE_DF.copy() *)
df_copy == BASE_DF

(* The range test with "or" between the two comparisons. *)
in_range_either(x, yr0, yr1) == x.num >= yr0 * x.den \/ x.num <= yr1 * x.den

in_range(x, yr0, yr1) == x.num >= yr0 * x.den /\ x.num <= yr1 * x.den

last5_mask(r, yr) == r.Last5Years.isna \/ in_range(r.Last5Years, yr[1], yr[2])

intent_mask(r, intents) ==
  astype_str(r.AttendTRBAM2026, INTENT_LEVELS) \in intents \/ isna(r.AttendTRBAM2026)

(* The tenure test without the pass-through of a missing tenure. *)
tenure_mask_strict(r, tens) == astype_str(r.HowLong, TENURE_LEVELS) \in tens

tenure_mask(r, tens) ==
  astype_str(r.HowLong, TENURE_LEVELS) \in tens \/ isna(r.HowLong)

(* The organization test as all-of: every token must be selected. *)
orgs_mask_all_of(r, sel_orgs) ==
  LET toks == Range(split_orgs(r.Organization))
  IN  toks = {} \/ toks \subseteq sel_orgs

orgs_mask(r, sel_orgs) ==
  LET toks == Range(split_orgs(r.Organization))
  IN  toks = {} \/ toks \cap sel_orgs # {}

(* The rows kept, the last first. *)
reset_index_reversed(df) == [i \in DOMAIN df |-> df[Len(df) + 1 - i]]

(* df.reset_index(drop=True): the rows kept, renumbered from the first. *)
reset_index(df) == df

df_filtered(sel) ==
  LET keep1(r) == last5_mask(r, sel.yr)
      keep2(r) == intent_mask(r, sel.intent)
      keep3(r) == tenure_mask(r, sel.tenure)
      keep4(r) == orgs_mask(r, sel.orgs)
      df1 == SelectSeq(df_copy, keep1)
      df2 == IF sel.intent # {} THEN SelectSeq(df1, keep2) ELSE df1
      df3 == IF sel.tenure # {} THEN SelectSeq(df2, keep3) ELSE df2
      df4 == IF sel.orgs # {} THEN SelectSeq(df3, keep4) ELSE df3
  IN  reset_index(df4)

(* ------------------------------ Outputs ------------------------------- *)

(* f"... {n} response{'s' if n != 1 else ''}" *)
render_header(d) ==
  [n |-> Len(d), noun |-> "response" \o (IF Len(d) # 1 THEN "s" ELSE "")]

(* What a chart is drawn from: the rows of the counted frame, or the       *)
(* "(no data)" placeholder, or the error of a render function that raised. *)
Chart(rows)  == [error |-> FALSE, nodata |-> rows = <<>>, series |-> rows]

ChartError   == [error |-> TRUE, nodata |-> FALSE, series |-> <<>>]

(* groupby(col).size(): one row per value that occurs, in the sorted order *)
(* of the values, which sort_order lists.                                  *)
groupby_size(labels, sort_order) ==
  LET occurs(k) == k \in Range(labels)
      keys == SelectSeq(sort_order, occurs)
  IN  [i \in DOMAIN keys |->
         [key |-> keys[i],
          n   |-> Cardinality({j \in DOMAIN labels : labels[j] = keys[i]})]]

(* pd.Categorical(agg[col], categories=order, ordered=True) and            *)
(* sort_values: the rows in the order of their category codes; a key that  *)
(* is no category has no code (0) and sorts last, in the order it had.     *)
sort_by_category(agg, order) ==
  LET coded == [i \in DOMAIN agg |->
                  [code |-> Categorical(agg[i].key, order), n |-> agg[i].n]]
      known(c) ==
        LET this(r) == r.code = c IN SelectSeq(coded, this)
      missing(r) == r.code = 0
  IN  Concat([c \in DOMAIN order |-> known(c)]) \o SelectSeq(coded, missing)

(* pie_from_counts: the rows with a positive count, their labels as        *)
(* strings (a missing label reads "nan", which fillna does not touch).     *)
pie_from_counts(agg, categories) ==
  LET positive(r) == r.n > 0
      d == SelectSeq(agg, positive)
  IN  Chart([i \in DOMAIN d |->
               [label |-> astype_str(d[i].code, categories), n |-> d[i].n]])

(* _label_na on a categorical column: the category, or the label. *)
label_na(code, categories) ==
  IF isna(code) THEN "Unspecified" ELSE categories[code]

(* astype("Int64") accepts the missing value and whole numbers only. *)
IsWhole(x) == x.isna \/ x.num % x.den = 0

last5_key(x) ==
  IF x.isna THEN "Unspecified" ELSE ToString(x.num \div x.den)

(* order = [str(i) for i in range(0, 6)] + ["Unspecified"] *)
LAST5_ORDER == [i \in 1..6 |-> ToString(i - 1)] \o <<"Unspecified">>

(* The keys of the attendance column in string order, for numbers of one   *)
(* digit: "-1" < ... < "-9" < "0" < ... < "9" < "Unspecified".             *)
LAST5_SORTED ==
  [i \in 1..9 |-> ToString(0 - i)] \o [i \in 1..10 |-> ToString(i - 1)]
    \o <<"Unspecified">>

(* lambda x: f"{x} time{'s' if x not in ['1','Unspecified'] else ''}" *)
time_label(x) == x \o " time" \o (IF x \notin {"1", "Unspecified"} THEN "s" ELSE "")

render_pie_last5(d) ==
  IF \E i \in DOMAIN d : ~IsWhole(d[i].Last5Years) THEN ChartError
  ELSE LET keyof(r) == last5_key(r.Last5Years)
           agg == sort_by_category(
                    groupby_size(MapSeq(d, keyof), LAST5_SORTED), LAST5_ORDER)
       IN  pie_from_counts(agg, MapSeq(LAST5_ORDER, time_label))

INTENT_SORTED ==
  <<"Definitely going", "Definitely not going", "I don't know",
    "Probably going", "Probably not going", "Unspecified">>

render_pie_intent(d) ==
  LET order == INTENT_LEVELS \o <<"Unspecified">>
      keyof(r) == label_na(r.AttendTRBAM2026, INTENT_LEVELS)
  IN  pie_from_counts(
        sort_by_category(groupby_size(MapSeq(d, keyof), INTENT_SORTED), order),
        order)

TENURE_SORTED ==
  <<"0 to 5 years", "11 to 15 years", "16 or more years", "6 to 10 years",
    "Unspecified">>

render_pie_tenure(d) ==
  LET order == TENURE_LEVELS \o <<"Unspecified">>
      keyof(r) == label_na(r.HowLong, TENURE_LEVELS)
  IN  pie_from_counts(
        sort_by_category(groupby_size(MapSeq(d, keyof), TENURE_SORTED), order),
        order)

RECURSIVE descending(_)
descending(S) ==
  IF S = {} THEN <<>>
  ELSE LET m == CHOOSE x \in S : \A y \in S : y <= x
       IN  <<m>> \o descending(S \ {m})

Reverse(s) == [i \in DOMAIN s |-> s[Len(s) + 1 - i]]

(* rows.extend(split_orgs(...)) over the filtered rows: every token of     *)
(* every row, repeats included.                                            *)
org_mentions(d) ==
  LET toks(r) == split_orgs(r.Organization) IN Concat(MapSeq(d, toks))

(* Series.value_counts(): the number of times each value occurs, largest   *)
(* first.  The sort leaves the order of equal counts open, so the values   *)
(* of one count are kept together as a set.                                *)
value_counts(rows) ==
  LET count(t) == Cardinality({i \in DOMAIN rows : rows[i] = t})
      ns == descending({count(t) : t \in Range(rows)})
  IN  [i \in DOMAIN ns |->
         [n |-> ns[i], org |-> {t \in Range(rows) : count(t) = ns[i]}]]

(* bar_orgs: agg is the counted frame, fig the frame handed to px.bar,     *)
(* agg.sort_values("n", ascending=True).                                   *)
render_bar_orgs(d) ==
  LET rows == org_mentions(d)
      agg  == value_counts(rows)
  IN  [nodata |-> rows = <<>>, agg |-> agg, fig |-> Reverse(agg)]

(* ---------------------------- The tables ------------------------------ *)

Row(a, b, c, d) ==
  [Last5Years |-> a, AttendTRBAM2026 |-> b, Organization |-> c, HowLong |-> d]

R1 == Row(<<"2">>, "Definitely going", <<"DOT">>, "0 to 5 years")

R2 == Row(<<>>, "Probably going", <<"Consultant", ",", SP, "DOT">>, "")

R3 == Row(<<"5">>, "", <<"Software">>, "16 or more years")

R4 == Row(<<"7">>, "Maybe", <<>>, "decades")

R5 == Row(<<"2", ".", "5">>, "I don't know", <<"DOT", ",", SP, "DOT">>, "6 to 10 years")

R6 == Row(<<"n", "/", "a">>, "Definitely not going",
          <<"DOT", ",", SP, "and", SP, "MPO">>, "0 to 5 years")

R7 == Row(<<"0">>, "Probably not going", <<SP, "consultant", SP>>, "11 to 15 years")

R8 == Row(<<"-", "1">>, "Probably going", <<"DOT", ",", SP, "Consulting">>,
          "16 or more years")

(* The rows trb_simplified.csv is drawn from, in file order: the three     *)
(* responses of the documentation's worked example, then a count above     *)
(* five with answers outside the levels and no organization, a fractional  *)
(* count with a repeated organization, a count that is no number with      *)
(* "and" after a comma, a padded spelling variant, and a count below zero  *)
(* with two organizations.                                                 *)
SURVEY == <<R1, R2, R3, R4, R5, R6, R7, R8>>

(* The three-response table of the documentation's worked example. *)
SCENARIO == <<R1, R2, R3>>

RECURSIVE Pick(_, _)
Pick(s, I) ==
  IF s = <<>> THEN <<>>
  ELSE LET rest == Pick(SubSeq(s, 1, Len(s) - 1), I)
       IN  IF Len(s) \in I THEN Append(rest, s[Len(s)]) ELSE rest

(* The tables loaded: at most MaxRows rows of the survey, in file order or *)
(* in the opposite order, and the worked example.                          *)
TABLES ==
  LET some == {Pick(SURVEY, I) : I \in {J \in SUBSET DOMAIN SURVEY : Cardinality(J) <= MaxRows}}
  IN  some \cup {Reverse(t) : t \in some} \cup {SCENARIO}

(* ----------------------------- The inputs ----------------------------- *)

(* input_slider("yr", ..., 0, 5, [0, 5]); the selectize inputs start with  *)
(* every level selected, and orgs with none.                               *)
SLIDER_MIN == 0

SLIDER_MAX == 5

DEFAULT_INPUT ==
  [yr     |-> <<SLIDER_MIN, SLIDER_MAX>>,
   intent |-> Range(INTENT_LEVELS),
   orgs   |-> {},
   tenure |-> Range(TENURE_LEVELS)]

(* The values a session sends for yr: ranges of the slider, and ranges a   *)
(* client can send that the slider would not, inverted or out of 0..5.     *)
YR_VALUES == {<<0, 5>>, <<2, 3>>, <<5, 2>>, <<6, 7>>, <<-1, 7>>}

INTENT_VALUES == {Range(INTENT_LEVELS), {}, {"Definitely going"}}

TENURE_VALUES == {Range(TENURE_LEVELS), {}, {"0 to 5 years"}}

(* The orgs input: nothing, one of the choices, or all of them. *)
ORG_VALUES ==
  {{}, Range(ORG_CHOICES)} \cup {{t} : t \in Range(ORG_CHOICES)}

(* --------------------------- The state machine ------------------------ *)

Init ==
  /\ csv \in TABLES
  /\ BASE_DF = load(csv)
  /\ ORG_CHOICES = org_choices(BASE_DF)
  /\ input = DEFAULT_INPUT
  /\ filtered = df_filtered(input)
  /\ charts_header = render_header(filtered)
  /\ pie_last5 = render_pie_last5(filtered)
  /\ pie_intent = render_pie_intent(filtered)
  /\ bar_orgs = render_bar_orgs(filtered)
  /\ pie_tenure = render_pie_tenure(filtered)

(* One reactive flush after an input changed: df_filtered is computed once *)
(* for the new inputs and every output is rendered from its value.         *)
Flush ==
  /\ filtered' = df_filtered(input')
  /\ charts_header' = render_header(filtered')
  /\ pie_last5' = render_pie_last5(filtered')
  /\ pie_intent' = render_pie_intent(filtered')
  /\ bar_orgs' = render_bar_orgs(filtered')
  /\ pie_tenure' = render_pie_tenure(filtered')
  /\ UNCHANGED <<csv, BASE_DF, ORG_CHOICES>>

SetYr ==
  \E v \in YR_VALUES :
    /\ v # input.yr
    /\ input' = [input EXCEPT !.yr = v]
    /\ Flush

SetIntent ==
  \E v \in INTENT_VALUES :
    /\ v # input.intent
    /\ input' = [input EXCEPT !.intent = v]
    /\ Flush

SetOrgs ==
  \E v \in ORG_VALUES :
    /\ v # input.orgs
    /\ input' = [input EXCEPT !.orgs = v]
    /\ Flush

SetTenure ==
  \E v \in TENURE_VALUES :
    /\ v # input.tenure
    /\ input' = [input EXCEPT !.tenure = v]
    /\ Flush

Next == SetYr \/ SetIntent \/ SetOrgs \/ SetTenure

Spec == Init /\ [][Next]_vars

(* ------------------- The documented filter predicate ------------------ *)

Tokens(r) == Range(split_orgs(r.Organization))

AbsentLast5(r)  == r.Last5Years.isna

AbsentIntent(r) == r.AttendTRBAM2026 = 0

AbsentTenure(r) == r.HowLong = 0

AbsentOrgs(r)   == Tokens(r) = {}

PassesLast5(r, sel) ==
  \/ AbsentLast5(r)
  \/ /\ sel.yr[1] * r.Last5Years.den <= r.Last5Years.num
     /\ r.Last5Years.num <= sel.yr[2] * r.Last5Years.den

PassesIntent(r, sel) ==
  sel.intent = {} \/ AbsentIntent(r) \/ INTENT_LEVELS[r.AttendTRBAM2026] \in sel.intent

PassesTenure(r, sel) ==
  sel.tenure = {} \/ AbsentTenure(r) \/ TENURE_LEVELS[r.HowLong] \in sel.tenure

PassesOrgs(r, sel) ==
  sel.orgs = {} \/ AbsentOrgs(r) \/ \E t \in Tokens(r) : t \in sel.orgs

Kept(sel) ==
  LET all(r) == /\ PassesLast5(r, sel) /\ PassesIntent(r, sel)
                /\ PassesTenure(r, sel) /\ PassesOrgs(r, sel)
  IN  SelectSeq(BASE_DF, all)

(* ------------------------------- Claims ------------------------------- *)

(* C1: pass-through.  A record that is absent in one filtered field        *)
(* (last5Years, intent, tenure, or an organization cell with no token) and *)
(* passes the tests of the other three fields is in df_filtered, whatever  *)
(* is selected for that field.                                             *)
C1_PassThrough ==
  \A i \in DOMAIN BASE_DF :
    LET r == BASE_DF[i]
        p1 == PassesLast5(r, input)
        p2 == PassesIntent(r, input)
        p3 == PassesTenure(r, input)
        p4 == PassesOrgs(r, input)
    IN  /\ (AbsentLast5(r)  /\ p2 /\ p3 /\ p4) => r \in Range(filtered)
        /\ (AbsentIntent(r) /\ p1 /\ p3 /\ p4) => r \in Range(filtered)
        /\ (AbsentTenure(r) /\ p1 /\ p2 /\ p4) => r \in Range(filtered)
        /\ (AbsentOrgs(r)   /\ p1 /\ p2 /\ p3) => r \in Range(filtered)

(* A record without tenure is kept while only "0 to 5 years" is selected. *)
C1_Witness ==
  /\ input.tenure = {"0 to 5 years"}
  /\ \E r \in Range(filtered) : AbsentTenure(r) /\ ~AbsentIntent(r)

(* C2: df_filtered keeps a record if and only if all four tests hold: the  *)
(* inclusive range or an absent count; an empty intent selection, an       *)
(* absent intent or a selected one; the same for tenure; an empty          *)
(* organization selection, no token, or a token shared with the selection. *)
C2_KeptIffAllFour == filtered = Kept(input)

(* "DOT, Consulting" is kept for orgs = {"Consulting"} while another       *)
(* record is filtered out.                                                 *)
C2_Witness ==
  /\ input.orgs = {<<"Consulting">>}
  /\ \E r \in Range(filtered) : Tokens(r) = {<<"DOT">>, <<"Consulting">>}
  /\ Len(filtered) < Len(BASE_DF)

(* The spellings the load replaces by a canonical name. *)
SPELLING_VARIANTS ==
  {<<"Consultant">>, <<"consultant">>, <<"CONSULTANT">>, <<"software">>}

(* C3: known spelling variants are collapsed to canonical names in the     *)
(* tokens the pipeline produces, also inside a cell that names several     *)
(* organizations; so the worked example filtered with orgs = {"DOT"} gives *)
(* the records R1, R2 and the organization counts DOT 2, Consulting 1.     *)
C3_VariantsCollapsed ==
  /\ \A i \in DOMAIN BASE_DF : Tokens(BASE_DF[i]) \cap SPELLING_VARIANTS = {}
  /\ (csv = SCENARIO /\ input = [DEFAULT_INPUT EXCEPT !.orgs = {<<"DOT">>}])
       => /\ filtered = <<BASE_DF[1], BASE_DF[2]>>
          /\ bar_orgs.agg = <<[n |-> 2, org |-> {<<"DOT">>}],
                              [n |-> 1, org |-> {<<"Consulting">>}]>>

(* The labels of a chart and its counts. *)
Labels(chart) == [i \in DOMAIN chart.series |-> chart.series[i].label]

Counts(chart) == [i \in DOMAIN chart.series |-> chart.series[i].n]

(* s lists some of the members of order, each once, in the order of order. *)
InOrderOf(s, order) ==
  /\ \A i \in DOMAIN s : s[i] \in Range(order)
  /\ \A i, j \in DOMAIN s : i < j => IndexOf(order, s[i]) < IndexOf(order, s[j])

ATTENDANCE_DOMAIN ==
  <<"0 times", "1 time", "2 times", "3 times", "4 times", "5 times">>

(* C4: every label of the attendance, intent and tenure series is a member *)
(* of the field's domain, in domain order, or is exactly "Unspecified",    *)
(* which is last when present; no label has count 0.                       *)
C4_LabelsInDomain ==
  /\ ~pie_last5.error =>
       InOrderOf(Labels(pie_last5), ATTENDANCE_DOMAIN \o <<"Unspecified">>)
  /\ InOrderOf(Labels(pie_intent), INTENT_LEVELS \o <<"Unspecified">>)
  /\ InOrderOf(Labels(pie_tenure), TENURE_LEVELS \o <<"Unspecified">>)
  /\ \A chart \in {pie_last5, pie_intent, pie_tenure} :
       \A i \in DOMAIN chart.series : chart.series[i].n >= 1

(* The count of the bucket of missing values of a chart, 0 without one;   *)
(* the attendance chart writes its label with the suffix of the counts.    *)
Unspecified(chart) ==
  LET is(r) == r.label \in {"Unspecified", "Unspecified time"}
  IN  SumSeq(MapSeq(SelectSeq(chart.series, is), LAMBDA r : r.n))

(* C5: count conservation.  For attendance, intent and tenure the counts   *)
(* of the series, the Unspecified bucket included, add up to the number of *)
(* filtered records, the total charts_header shows; the Unspecified count  *)
(* is the number of filtered records absent in the field.                  *)
C5_CountConservation ==
  /\ charts_header.n = Len(filtered)
  /\ \A chart \in {pie_last5, pie_intent, pie_tenure} :
       SumSeq(Counts(chart)) = Len(filtered)
  /\ Unspecified(pie_last5) =
       Cardinality({i \in DOMAIN filtered : AbsentLast5(filtered[i])})
  /\ Unspecified(pie_intent) =
       Cardinality({i \in DOMAIN filtered : AbsentIntent(filtered[i])})
  /\ Unspecified(pie_tenure) =
       Cardinality({i \in DOMAIN filtered : AbsentTenure(filtered[i])})

(* A numeric cell that reads as one of the counts 0..5. *)
ValidCount(cell) == cell \in {<<DIGITS[i]>> : i \in 1..6}

(* C6: at load a last5Years value that is unparseable or outside 0..5      *)
(* becomes absent: the record passes the range test for every range and is *)
(* counted in the Unspecified bucket, never under a label of its own.      *)
C6_OutOfRangeAbsent ==
  /\ \A i \in DOMAIN csv :
       ~ValidCount(csv[i].Last5Years) =>
          /\ AbsentLast5(BASE_DF[i])
          /\ (PassesIntent(BASE_DF[i], input) /\ PassesTenure(BASE_DF[i], input)
                /\ PassesOrgs(BASE_DF[i], input)) => BASE_DF[i] \in Range(filtered)
  /\ ~pie_last5.error =>
       \A l \in Range(Labels(pie_last5)) :
         l \in Range(ATTENDANCE_DOMAIN) \cup {"Unspecified", "Unspecified time"}

MalformedRange(yr) ==
  yr[1] > yr[2] \/ yr[1] \notin SLIDER_MIN..SLIDER_MAX \/ yr[2] \notin SLIDER_MIN..SLIDER_MAX

(* C7 as claimed: with yr0 > yr1 or a bound outside 0..5, df_filtered      *)
(* yields an empty result.                                                 *)
C7_MalformedRangeEmpty == MalformedRange(input.yr) => filtered = <<>>

(* C7, amended: a malformed range is filtered like any other.  With        *)
(* yr0 > yr1 df_filtered keeps exactly the records without a count that    *)
(* pass the intent, tenure and organization tests; with a bound outside    *)
(* 0..5 every record kept has no count or a count within the bounds.       *)
C7_MalformedRangeFiltered ==
  LET others(r) == /\ AbsentLast5(r) /\ PassesIntent(r, input)
                   /\ PassesTenure(r, input) /\ PassesOrgs(r, input)
  IN  /\ input.yr[1] > input.yr[2] => filtered = SelectSeq(BASE_DF, others)
      /\ MalformedRange(input.yr) =>
           \A r \in Range(filtered) : PassesLast5(r, input)

(* An inverted range with a record kept, and a range beyond the slider     *)
(* that keeps a record with a count.                                       *)
C7_Witness ==
  \/ input.yr[1] > input.yr[2] /\ filtered # <<>>
       /\ Len(filtered) < Len(BASE_DF)
  \/ input.yr = <<6, 7>> /\ \E r \in Range(filtered) : ~AbsentLast5(r)

(* The positions of a cell that belong to a delimiter: a comma, slash,      *)
(* semicolon or plus sign, or an occurrence of the word " and ".           *)
DelimiterAt(s, p) ==
  \/ s[p] \in DELIMITER_CHARS
  \/ \E q \in {p - 2, p - 1, p} :
       q >= 1 /\ q + 2 <= Len(s) /\ SubSeq(s, q, q + 2) = AND_WORD

(* The cell cut at every delimiter occurrence: the maximal runs of         *)
(* positions that belong to no delimiter, trimmed, the empty ones dropped. *)
CutAtEveryDelimiter(s) ==
  LET runs == {<<a, b>> \in (DOMAIN s) \X (DOMAIN s) :
                 /\ a <= b
                 /\ \A p \in a..b : ~DelimiterAt(s, p)
                 /\ (a = 1 \/ DelimiterAt(s, a - 1))
                 /\ (b = Len(s) \/ DelimiterAt(s, b + 1))}
  IN  {strip(SubSeq(s, r[1], r[2])) : r \in runs} \ {<<>>}

(* C8: split_orgs splits on every occurrence of a delimiter, independently *)
(* of the delimiters around it: for every cell the tokens are the cell cut *)
(* at each occurrence, trimmed, without empty fragments ("A, and B" gives  *)
(* A and B), and no token is empty or starts or ends with a blank.         *)
C8_SplitsAtEveryDelimiter ==
  \A i \in DOMAIN csv :
    \A cell \in {csv[i].Organization, BASE_DF[i].Organization} :
      /\ Range(split_orgs(cell)) = CutAtEveryDelimiter(cell)
      /\ \A t \in Range(split_orgs(cell)) : t # <<>> /\ strip(t) = t

(* C9: the organization series counts, for each token, the filtered        *)
(* records whose token set contains it (a cell "DOT, DOT" adds 1 to DOT),  *)
(* in descending order of the counts; a record without a token adds        *)
(* nothing, and an empty filtered set gives an empty series.               *)
C9_OrgSeriesCountsRecords ==
  LET records(t) == Cardinality({i \in DOMAIN filtered : t \in Tokens(filtered[i])})
      all == UNION {Tokens(filtered[i]) : i \in DOMAIN filtered}
  IN  /\ UNION {bar_orgs.agg[k].org : k \in DOMAIN bar_orgs.agg} = all
      /\ \A k \in DOMAIN bar_orgs.agg :
           \A t \in bar_orgs.agg[k].org : bar_orgs.agg[k].n = records(t)
      /\ \A k, l \in DOMAIN bar_orgs.agg :
           k < l => bar_orgs.agg[k].n > bar_orgs.agg[l].n
      /\ bar_orgs.nodata = (all = {})
      /\ filtered = <<>> => bar_orgs.agg = <<>>

(* s is t with some rows left out: the rows of s are rows of t at          *)
(* increasing places.                                                      *)
RECURSIVE IsSubsequence(_, _)
IsSubsequence(s, t) ==
  IF s = <<>> THEN TRUE
  ELSE IF t = <<>> THEN FALSE
  ELSE IF Head(s) = Head(t) THEN IsSubsequence(Tail(s), Tail(t))
  ELSE IsSubsequence(s, Tail(t))

(* C10: a selection change and its filter cycle leave BASE_DF and          *)
(* ORG_CHOICES as they were; the filtered set after the change is the one  *)
(* BASE_DF and the new selection alone give, whatever was selected and     *)
(* filtered before, and its records stand in the order they have in        *)
(* BASE_DF.                                                                *)
C10_DerivedFromBase ==
  [][/\ BASE_DF' = BASE_DF
     /\ ORG_CHOICES' = ORG_CHOICES
     /\ filtered' = Kept(input')
     /\ IsSubsequence(filtered', BASE_DF)]_vars

(* After the range, the organizations and the tenures were changed, two or *)
(* more records are kept and another is filtered out.                      *)
C10_Witness ==
  /\ input.yr # DEFAULT_INPUT.yr
  /\ input.orgs # {}
  /\ input.tenure # DEFAULT_INPUT.tenure
  /\ Len(filtered) >= 2
  /\ Len(filtered) < Len(BASE_DF)

=============================================================================
